---- MODULE Spec2Model ----
(***************************************************************************)
(* Booking lifecycle and payment settlement of the Lumora server           *)
(* (src/index.js).  The state is the content of the MongoDB collections    *)
(* users, services, bookings and payments, the checkout sessions held by   *)
(* the payment provider, and the requests that are between two awaited     *)
(* database operations.  Every awaited database operation of a handler is  *)
(* one atomic step; handlers with two dependent writes are two steps, and  *)
(* other requests may be served between them.  A date is kept as set or    *)
(* unset; createdAt and updatedAt, which no handler reads, are left out.   *)
(***************************************************************************)
EXTENDS Integers, Sequences, FiniteSets, Bags, TLC

\* ------------------------------------------------------------------ bounds
MaxBookings == 2
MaxPayments == 2
MaxSessions == 1
MaxServices == 1
MaxInFlight == 2
\* Bookings followed by the specifications of a single booking's operations.
MaxTracked == 1

\* ------------------------------------------------------------- value sets
BookerEmail == "u@x.com"
UserEmails == {BookerEmail, "v@x.com"}
DecoratorEmail == "d@x.com"
AdminEmail == "a@x.com"
Emails == UserEmails \cup {DecoratorEmail, AdminEmail}
\* An address with no user document yet.
NewEmail == "n@x.com"
Principals == Emails \cup {NewEmail}
Roles == {"user", "decorator", "admin"}
\* users[e] when usersCollection holds no document with email e
NoRole == "none"

NoEmail == "null"
NoDate == "unset"
Now == "set"
NoId == << >>

Statuses == {"pending", "assigned", "in_progress", "completed"}

\* ObjectId.toString() and new ObjectId(string): an id is a natural number in
\* the store and a one-element tuple wherever the code holds it as a string.
OidString(oid) == <<oid>>
ObjectId(str) == IF Len(str) = 1 THEN str[1] ELSE 0

\* { ...doc, ...updates } and $set restricted to the modelled fields.
Merge(doc, updates) ==
  [f \in DOMAIN doc |-> IF f \in DOMAIN updates THEN updates[f] ELSE doc[f]]

\* Amounts are exact decimals <<whole, hundredths>>.
\* Math.round(amount * 100)
ToMinorUnits(amount) == amount[1] * 100 + amount[2]
\* session.amount_total / 100
FromMinorUnits(total) == <<total \div 100, total % 100>>

Amounts == {<<1500, 0>>, <<1, 50>>}

\* ------------------------------------------------------------------ state
\* users: role by email.  services, bookings, payments: the collections.
\* sessions: the provider's checkout sessions.  resp: the last answer sent.
\* History: created[v] counts the POST /api/bookings completed with serviceId
\* v, and patched[v] tells whether PATCH /api/services/:id wrote v's
\* bookingCount.
VARIABLES users, services, bookings, payments, sessions, reqs, resp,
          created, patched

vars == <<users, services, bookings, payments, sessions, reqs, resp,
          created, patched>>

\* reqs is the bag of requests that are between two awaits, each with what
\* its handler holds for its next step.
InFlight == BagToSet(reqs)
CanAdmit == BagCardinality(reqs) < MaxInFlight
Admit(r) == reqs (+) SetToBag({r})
Finish(r) == reqs (-) SetToBag({r})

\* The answer to the request served last: its status code, 0 when the handler
\* threw and sent none.
Reply(op, code) == code

\* verifyAdmin
IsAdmin(email) == users[email] = "admin"
\* verifyDecorator
IsDecorator(email) == users[email] = "decorator" \/ users[email] = "admin"

Init ==
  /\ users = [e \in Principals |->
                IF e = AdminEmail THEN "admin"
                ELSE IF e = DecoratorEmail THEN "decorator"
                ELSE IF e = NewEmail THEN NoRole ELSE "user"]
  /\ services = << >>
  /\ bookings = << >>
  /\ payments = << >>
  /\ sessions = << >>
  /\ reqs = EmptyBag
  /\ resp = Reply("none", 0)
  /\ created = << >>
  /\ patched = << >>

\* ------------------------------------------------------------ collections
\* A collection is a sequence of documents; a document's _id is its index,
\* and deleteOne leaves a tombstone so that an _id is never issued twice.
Gone == [live |-> FALSE]
Live(coll, id) == id \in DOMAIN coll /\ coll[id].live
LiveIds(coll) == {id \in DOMAIN coll : coll[id].live}
\* Ids a client can hold: those the store has issued so far.
Issued(coll) == {OidString(id) : id \in DOMAIN coll}

\* updateOne({_id}, {$set: updates}): no document matched, nothing changes.
UpdateOne(coll, id, updates) ==
  IF Live(coll, id) THEN [coll EXCEPT ![id] = Merge(@, updates)] ELSE coll

\* deleteOne({_id})
DeleteOne(coll, id) ==
  IF Live(coll, id) THEN [coll EXCEPT ![id] = Gone] ELSE coll

\* --------------------------------------------------------------- services
ServiceUpdates == {<< >>, [bookingCount |-> 0]}

NewService == [live |-> TRUE, bookingCount |-> 0]

\* POST /api/services
CreateService(who) ==
  /\ Len(services) < MaxServices
  /\ IF IsAdmin(who)
       THEN /\ services' = Append(services, NewService)
            /\ created' = Append(created, 0)
            /\ patched' = Append(patched, FALSE)
            /\ resp' = Reply("createService", 200)
       ELSE /\ UNCHANGED <<services, created, patched>>
            /\ resp' = Reply("createService", 403)
  /\ UNCHANGED <<users, bookings, payments, sessions, reqs>>

\* PATCH /api/services/:id
UpdateService(who, id, updates) ==
  /\ IF IsAdmin(who)
       THEN /\ services' = UpdateOne(services, ObjectId(id), updates)
            /\ patched' = IF Live(services, ObjectId(id))
                             /\ "bookingCount" \in DOMAIN updates
                            THEN [patched EXCEPT ![ObjectId(id)] = TRUE]
                            ELSE patched
            /\ resp' = Reply("updateService", 200)
       ELSE /\ UNCHANGED <<services, patched>>
            /\ resp' = Reply("updateService", 403)
  /\ UNCHANGED <<users, bookings, payments, sessions, reqs, created>>

\* DELETE /api/services/:id
DeleteService(who, id) ==
  /\ IF IsAdmin(who)
       THEN /\ services' = DeleteOne(services, ObjectId(id))
            /\ resp' = Reply("deleteService", 200)
       ELSE /\ UNCHANGED services
            /\ resp' = Reply("deleteService", 403)
  /\ UNCHANGED <<users, bookings, payments, sessions, reqs, created, patched>>

\* --------------------------------------------------------------- bookings
\* The fields of a booking document; a field the document lacks holds the
\* null of its type.
BlankBooking ==
  [live |-> TRUE, userEmail |-> NoEmail, serviceId |-> NoId,
   status |-> "null", isPaid |-> FALSE, paymentId |-> NoId,
   paidAt |-> NoDate, decoratorEmail |-> NoEmail, assignedAt |-> NoDate,
   statusHistory |-> {}]

\* Request bodies of POST /api/bookings: the booking's own fields, alone or
\* together with values for the fields the handler sets itself.
CreateExtras == {<< >>, [status |-> "completed", isPaid |-> TRUE]}
CreateBodies ==
  {[userEmail |-> e, serviceId |-> sid] @@ x :
     e \in {BookerEmail}, sid \in Issued(services) \cup {NoId}, x \in CreateExtras}

\* The handler's own fields spread before the body instead of after it.
NewBookingBodyLast(body) ==
  Merge(Merge(BlankBooking, [status |-> "pending", isPaid |-> FALSE]), body)

\* { ...req.body, status: "pending", isPaid: false, createdAt: new Date() }
NewBooking(body) ==
  Merge(Merge(BlankBooking, body), [status |-> "pending", isPaid |-> FALSE])

\* A counter written with $set instead of $inc.
SetBookingCount(svcs, id) ==
  IF Live(svcs, id) THEN [svcs EXCEPT ![id].bookingCount = 1] ELSE svcs

\* { $inc: { bookingCount: 1 } } on the service with this _id
IncBookingCount(svcs, id) ==
  IF Live(svcs, id) THEN [svcs EXCEPT ![id].bookingCount = @ + 1] ELSE svcs

\* POST /api/bookings, first await: bookingsCollection.insertOne(booking)
CreateInsert(body) ==
  /\ CanAdmit
  /\ Len(bookings) < MaxBookings
  /\ bookings' = Append(bookings, NewBooking(body))
  /\ reqs' = Admit([op |-> "create", serviceId |-> body.serviceId])
  /\ UNCHANGED <<users, services, payments, sessions, resp, created, patched>>

\* POST /api/bookings, second await: the $inc on the service, then res.send
CreateInc(r) ==
  /\ r.op = "create"
  /\ services' = IncBookingCount(services, ObjectId(r.serviceId))
  /\ created' = IF ObjectId(r.serviceId) \in DOMAIN created
                  THEN [created EXCEPT ![ObjectId(r.serviceId)] = @ + 1]
                  ELSE created
  /\ reqs' = Finish(r)
  /\ resp' = Reply("create", 200)
  /\ UNCHANGED <<users, bookings, payments, sessions, patched>>

\* Request bodies of PATCH /api/bookings/:id
BookingUpdates ==
  {<< >>, [isPaid |-> TRUE, paymentId |-> OidString(0), status |-> "completed"],
   [userEmail |-> "v@x.com"]}

\* PATCH /api/bookings/:id
GenericUpdate(id, updates) ==
  /\ bookings' = UpdateOne(bookings, ObjectId(id), updates)
  /\ resp' = Reply("update", 200)
  /\ UNCHANGED <<users, services, payments, sessions, reqs, created, patched>>

\* $set of PATCH /api/bookings/:id/assign
AssignSet(decoratorEmail) ==
  [decoratorEmail |-> decoratorEmail, status |-> "assigned", assignedAt |-> Now]

\* PATCH /api/bookings/:id/assign
AssignDecorator(who, id, decoratorEmail) ==
  /\ IF IsAdmin(who)
       THEN /\ bookings' = UpdateOne(bookings, ObjectId(id), AssignSet(decoratorEmail))
            /\ resp' = Reply("assign", 200)
       ELSE /\ UNCHANGED bookings
            /\ resp' = Reply("assign", 403)
  /\ UNCHANGED <<users, services, payments, sessions, reqs, created, patched>>

\* $set of PATCH /api/bookings/:id/status: { status, statusHistory.<status> }
StatusSet(booking, status) ==
  [status |-> status, statusHistory |-> booking.statusHistory \cup {status}]

\* PATCH /api/bookings/:id/status
UpdateStatus(who, id, status) ==
  /\ IF IsDecorator(who)
       THEN /\ bookings' = IF Live(bookings, ObjectId(id))
                             THEN UpdateOne(bookings, ObjectId(id),
                                            StatusSet(bookings[ObjectId(id)], status))
                             ELSE bookings
            /\ resp' = Reply("status", 200)
       ELSE /\ UNCHANGED bookings
            /\ resp' = Reply("status", 403)
  /\ UNCHANGED <<users, services, payments, sessions, reqs, created, patched>>

\* The checks without the isPaid test.
CancelCheckOwnerOnly(booking, who) ==
  IF booking.userEmail # who THEN 403 ELSE 200

\* The checks with the isPaid test made first.
CancelCheckPaidFirst(booking, who) ==
  IF booking.isPaid THEN 400
  ELSE IF booking.userEmail # who THEN 403
  ELSE 200

\* The checks of DELETE /api/bookings/:id on the booking it found: the status
\* code it answers with, 200 when it goes on to delete.
CancelCheck(booking, who) ==
  IF booking.userEmail # who THEN 403
  ELSE IF booking.isPaid THEN 400
  ELSE 200

\* DELETE /api/bookings/:id, first await: findOne, then the two checks.  For
\* an id that finds nothing, booking.userEmail throws and no answer is sent.
CancelFind(who, id) ==
  /\ CanAdmit
  /\ IF ~Live(bookings, ObjectId(id))
       THEN /\ resp' = Reply("cancel", 0)
            /\ UNCHANGED reqs
       ELSE IF CancelCheck(bookings[ObjectId(id)], who) # 200
              THEN /\ resp' = Reply("cancel", CancelCheck(bookings[ObjectId(id)], who))
                   /\ UNCHANGED reqs
              ELSE /\ reqs' = Admit([op |-> "cancel", id |-> id])
                   /\ UNCHANGED resp
  /\ UNCHANGED <<users, services, bookings, payments, sessions, created, patched>>

\* DELETE /api/bookings/:id, second await: deleteOne, then res.send
CancelDelete(r) ==
  /\ r.op = "cancel"
  /\ bookings' = DeleteOne(bookings, ObjectId(r.id))
  /\ reqs' = Finish(r)
  /\ resp' = Reply("cancel", 200)
  /\ UNCHANGED <<users, services, payments, sessions, created, patched>>

\* --------------------------------------------------------------- payments
BlankPayment == [bookingId |-> NoId, amount |-> <<0, 0>>, transactionId |-> << >>]

\* Request bodies of POST /api/payments
ClientTransaction == <<"txn">>
ClientAmount == <<1, 0>>
PaymentBodies ==
  {[bookingId |-> b, amount |-> ClientAmount, transactionId |-> ClientTransaction] :
     b \in Issued(bookings)}

\* $set of the booking update that follows a payment insert
PaidSet(insertedId) ==
  [isPaid |-> TRUE, paymentId |-> OidString(insertedId), paidAt |-> Now]

\* POST /api/payments, first await: paymentsCollection.insertOne(payment)
SaveInsert(body) ==
  /\ CanAdmit
  /\ Len(payments) < MaxPayments
  /\ payments' = Append(payments, Merge(BlankPayment, body))
  /\ reqs' = Admit([op |-> "save", bookingId |-> body.bookingId,
                       insertedId |-> Len(payments) + 1])
  /\ UNCHANGED <<users, services, bookings, sessions, resp, created, patched>>

\* POST /api/payments, second await: the booking update, then res.send
SaveUpdate(r) ==
  /\ r.op = "save"
  /\ bookings' = UpdateOne(bookings, ObjectId(r.bookingId),
                           PaidSet(r.insertedId))
  /\ reqs' = Finish(r)
  /\ resp' = Reply("save", 200)
  /\ UNCHANGED <<users, services, payments, sessions, created, patched>>

\* ------------------------------------------------------- payment provider
\* stripe.checkout.sessions.create: the provider keeps the session; the
\* server keeps nothing.  The call may fail, and the handler answers 500.
CreateCheckoutSession(bookingId, amount, ok) ==
  /\ Len(sessions) < MaxSessions
  /\ IF ok
       THEN /\ sessions' = Append(sessions,
                 [payment_status |-> "unpaid",
                  amount_total |-> ToMinorUnits(amount),
                  payment_intent |-> <<"pi", Len(sessions) + 1>>])
            /\ resp' = Reply("checkout", 200)
       ELSE /\ UNCHANGED sessions
            /\ resp' = Reply("checkout", 500)
  /\ UNCHANGED <<users, services, bookings, payments, reqs, created, patched>>

\* The customer completes the checkout on the provider's page.
ProviderPay(k) ==
  /\ k \in DOMAIN sessions
  /\ sessions[k].payment_status = "unpaid"
  /\ sessions' = [sessions EXCEPT ![k].payment_status = "paid"]
  /\ UNCHANGED <<users, services, bookings, payments, reqs, resp, created, patched>>

\* The payment record POST /api/verify-payment builds from the session.
SessionPayment(session, bookingId) ==
  [bookingId |-> bookingId,
   amount |-> FromMinorUnits(session.amount_total),
   transactionId |-> session.payment_intent]

\* The test passes whatever the provider reports.
PaymentCompletedAlways(session) == TRUE

\* session.payment_status === "paid"
PaymentCompleted(session) == session.payment_status = "paid"

\* POST /api/verify-payment up to its second await: sessions.retrieve, the
\* payment_status test and paymentsCollection.insertOne.  A session the
\* provider reports as paid stays paid and its amount never changes, so the
\* retrieve and the insert are taken as one step at the time of the insert.
VerifyInsert(sessionId, bookingId) ==
  /\ CanAdmit
  /\ IF ObjectId(sessionId) \notin DOMAIN sessions
       THEN /\ resp' = Reply("verify", 500)
            /\ UNCHANGED <<payments, reqs>>
       ELSE IF PaymentCompleted(sessions[ObjectId(sessionId)])
              THEN /\ Len(payments) < MaxPayments
                   /\ payments' = Append(payments,
                        SessionPayment(sessions[ObjectId(sessionId)], bookingId))
                   /\ reqs' = Admit([op |-> "verify", bookingId |-> bookingId,
                                   insertedId |-> Len(payments) + 1])
                   /\ UNCHANGED resp
              ELSE /\ resp' = Reply("verify", 400)
                   /\ UNCHANGED <<payments, reqs>>
  /\ UNCHANGED <<users, services, bookings, sessions, created, patched>>

\* POST /api/verify-payment, third await: the booking update, then res.send
VerifyUpdate(r) ==
  /\ r.op = "verify"
  /\ bookings' = UpdateOne(bookings, ObjectId(r.bookingId),
                           PaidSet(r.insertedId))
  /\ reqs' = Finish(r)
  /\ resp' = Reply("verify", 200)
  /\ UNCHANGED <<users, services, payments, sessions, created, patched>>

\* ------------------------------------------------------------------ users
\* usersCollection holds at most one document that findOne({email}) returns
\* for an address; users maps the address to that document's role, and the
\* document's _id is written as the ObjectId string of its address.
BlankUser == [email |-> NoEmail, role |-> NoRole]

\* Request bodies of POST /api/users
RegisterBodies ==
  {[email |-> e] @@ x : e \in {NewEmail, BookerEmail},
                        x \in {<< >>, [role |-> "admin"]}}

\* { ...user, role: "user", createdAt: new Date() }
NewUser(body) == Merge(Merge(BlankUser, body), [role |-> "user"])

\* POST /api/users, first await: usersCollection.findOne({email})
RegisterFind(body) ==
  /\ CanAdmit
  /\ IF users[body.email] # NoRole
       THEN /\ resp' = Reply("register", 200)
            /\ UNCHANGED reqs
       ELSE /\ reqs' = Admit([op |-> "register", user |-> body])
            /\ UNCHANGED resp
  /\ UNCHANGED <<users, services, bookings, payments, sessions, created, patched>>

\* POST /api/users, second await: insertOne, then res.send.  When another
\* registration of the address got in first, the older document stays the
\* one that findOne({email}) returns.
RegisterInsert(r) ==
  /\ r.op = "register"
  /\ users' = IF users[r.user.email] = NoRole
                 THEN [users EXCEPT ![r.user.email] = NewUser(r.user).role]
                 ELSE users
  /\ reqs' = Finish(r)
  /\ resp' = Reply("register", 200)
  /\ UNCHANGED <<services, bookings, payments, sessions, created, patched>>

\* updateOne(filter, {$set: updates}) on the document of an address
SetUser(email, updates) ==
  IF email \in DOMAIN users /\ users[email] # NoRole /\ "role" \in DOMAIN updates
    THEN [users EXCEPT ![email] = updates.role]
    ELSE users

\* PATCH /api/users/:id/role up to its handler: verifyAdmin awaits the
\* requester's document and answers 403 unless its role is admin.
RoleCheck(who, id, role) ==
  /\ CanAdmit
  /\ IF IsAdmin(who)
       THEN /\ reqs' = Admit([op |-> "role", userId |-> id, role |-> role])
            /\ UNCHANGED resp
       ELSE /\ resp' = Reply("role", 403)
            /\ UNCHANGED reqs
  /\ UNCHANGED <<users, services, bookings, payments, sessions, created, patched>>

\* PATCH /api/users/:id/role, the handler: $set { role, isApproved, updatedAt }
RoleWrite(r) ==
  /\ r.op = "role"
  /\ users' = SetUser(ObjectId(r.userId), [role |-> r.role])
  /\ reqs' = Finish(r)
  /\ resp' = Reply("role", 200)
  /\ UNCHANGED <<services, bookings, payments, sessions, created, patched>>

\* Request bodies of PATCH /api/decorators/:email
ProfileUpdates == {<< >>, [role |-> "admin"]}

\* PATCH /api/decorators/:email up to its update: verifyDecorator awaits the
\* requester's document, then the handler compares the address of the path
\* with the token's.
ProfileCheck(who, email, updates) ==
  /\ CanAdmit
  /\ IF ~IsDecorator(who) \/ email # who
       THEN /\ resp' = Reply("profile", 403)
            /\ UNCHANGED reqs
       ELSE /\ reqs' = Admit([op |-> "profile", email |-> email,
                               updates |-> updates])
            /\ UNCHANGED resp
  /\ UNCHANGED <<users, services, bookings, payments, sessions, created, patched>>

\* PATCH /api/decorators/:email, the update: $set { ...updates, updatedAt }
ProfileWrite(r) ==
  /\ r.op = "profile"
  /\ users' = SetUser(r.email, r.updates)
  /\ reqs' = Finish(r)
  /\ resp' = Reply("profile", 200)
  /\ UNCHANGED <<services, bookings, payments, sessions, created, patched>>

\* ---------------------------------------------------------- specification
UserOps ==
  \/ \E body \in RegisterBodies : RegisterFind(body)
  \/ \E r \in InFlight : RegisterInsert(r)
  \/ \E who \in Principals, e \in Principals, role \in Roles :
       RoleCheck(who, OidString(e), role)
  \/ \E r \in InFlight : RoleWrite(r)
  \/ \E who \in Principals, e \in Principals, u \in ProfileUpdates :
       ProfileCheck(who, e, u)
  \/ \E r \in InFlight : ProfileWrite(r)

ServiceOps ==
  \/ \E who \in Emails : CreateService(who)
  \/ \E who \in Emails, id \in Issued(services), u \in ServiceUpdates :
       UpdateService(who, id, u)
  \/ \E who \in Emails, id \in Issued(services) : DeleteService(who, id)

CreateOps ==
  \/ \E body \in CreateBodies : CreateInsert(body)
  \/ \E r \in InFlight : CreateInc(r)

StatusOps ==
  \/ \E who \in Emails, id \in Issued(bookings) :
       AssignDecorator(who, id, DecoratorEmail)
  \/ \E who \in Emails, id \in Issued(bookings), st \in Statuses :
       UpdateStatus(who, id, st)

UpdateOps ==
  \E id \in Issued(bookings), u \in BookingUpdates : GenericUpdate(id, u)

CancelOps ==
  \/ \E who \in Emails, id \in Issued(bookings) : CancelFind(who, id)
  \/ \E r \in InFlight : CancelDelete(r)

PaymentOps ==
  \/ \E body \in PaymentBodies : SaveInsert(body)
  \/ \E r \in InFlight : SaveUpdate(r)
  \/ \E b \in Issued(bookings), a \in Amounts, ok \in BOOLEAN :
       CreateCheckoutSession(b, a, ok)
  \/ \E k \in DOMAIN sessions : ProviderPay(k)
  \/ \E sid \in Issued(sessions) \cup {NoId}, b \in Issued(bookings) :
       VerifyInsert(sid, b)
  \/ \E r \in InFlight : VerifyUpdate(r)

Next ==
  \/ ServiceOps
  \/ CreateOps
  \/ StatusOps
  \/ UpdateOps
  \/ CancelOps
  \/ PaymentOps
  \/ UserOps

\* The whole server.  The specifications below are the parts of it that read
\* or write the same documents.
Spec == Init /\ [][Next]_vars

\* Bookings and their payments: no service exists, so none is counted.
NextPay ==
  \/ CreateOps
  \/ UpdateOps
  \/ CancelOps
  \/ PaymentOps

SpecPay == Init /\ [][NextPay]_vars

\* Bookings and their status.  Every status operation acts on the one booking
\* document it names, so this specification follows MaxTracked bookings.
NextStatus ==
  \/ \E body \in CreateBodies :
       Len(bookings) < MaxTracked /\ CreateInsert(body)
  \/ \E r \in InFlight : CreateInc(r)
  \/ StatusOps
  \/ UpdateOps
  \/ CancelOps

SpecStatus == Init /\ [][NextStatus]_vars

\* Services and the bookings counted on them, with their cancellation.
NextCount ==
  \/ ServiceOps
  \/ CreateOps
  \/ CancelOps

SpecCount == Init /\ [][NextCount]_vars

\* Cancellation against everything that writes the fields it reads.  A
\* cancellation acts on the one booking document it names, so this
\* specification follows MaxTracked bookings.
NextCancel ==
  \/ \E body \in CreateBodies :
       Len(bookings) < MaxTracked /\ CreateInsert(body)
  \/ \E r \in InFlight : CreateInc(r)
  \/ UpdateOps
  \/ CancelOps
  \/ \E body \in PaymentBodies : SaveInsert(body)
  \/ \E r \in InFlight : SaveUpdate(r)

SpecCancel == Init /\ [][NextCancel]_vars

\* Checkout sessions and their verification, on MaxTracked bookings that
\* the generic update may rewrite meanwhile.
NextVerify ==
  \/ \E body \in CreateBodies :
       Len(bookings) < MaxTracked /\ CreateInsert(body)
  \/ \E r \in InFlight : CreateInc(r)
  \/ UpdateOps
  \/ \E b \in Issued(bookings), a \in Amounts, ok \in BOOLEAN :
       CreateCheckoutSession(b, a, ok)
  \/ \E k \in DOMAIN sessions : ProviderPay(k)
  \/ \E sid \in Issued(sessions) \cup {NoId}, b \in Issued(bookings) :
       VerifyInsert(sid, b)
  \/ \E r \in InFlight : VerifyUpdate(r)

SpecVerify == Init /\ [][NextVerify]_vars

\* What the server does without a new request reaching it: a handler that
\* awaits a database operation resumes when the operation completes.  The
\* routes run only when a client calls them.
Resume ==
  \E r \in InFlight : CreateInc(r) \/ VerifyUpdate(r)

SpecSettle == SpecVerify /\ WF_vars(Resume)

\* The user documents and the routes that write them.
SpecRoles == Init /\ [][UserOps]_vars

\* ------------------------------------------------------------------ claims
Doc(id) == bookings[ObjectId(id)]
Found(id) == Live(bookings, ObjectId(id))

\* C1: every paid booking has a payment that names the booking and that the
\* booking's paymentId names.
C1_PaidBookingHasPayment ==
  \A b \in LiveIds(bookings) :
    bookings[b].isPaid =>
      \E p \in DOMAIN payments :
        /\ ObjectId(payments[p].bookingId) = b
        /\ OidString(p) = bookings[b].paymentId

\* C2: the payments store holds at most one payment for a checkout session,
\* however often the session is verified.
C2_OnePaymentPerSession ==
  \A k \in DOMAIN sessions :
    Cardinality({p \in DOMAIN payments :
                   payments[p].transactionId = sessions[k].payment_intent}) <= 1

\* C3: a step that deletes a booking does not delete one that a settlement
\* has marked paid (isPaid with its paidAt).
C3_DeletedOnlyWhileUnpaid ==
  [][\A b \in LiveIds(bookings) :
       ~Live(bookings', b) =>
         ~(bookings[b].isPaid /\ bookings[b].paidAt = Now)]_vars

\* The lifecycle order of section 4.1 of the specification.
Rank(status) ==
  CASE status = "pending" -> 1
    [] status = "assigned" -> 2
    [] status = "in_progress" -> 3
    [] status = "completed" -> 4
    [] OTHER -> 0

\* C4: a status update naming a status that precedes the booking's current
\* one is not answered with success and leaves the bookings as they were.
C4_NoBackwardStatus ==
  [][\A who \in Emails, id \in Issued(bookings), st \in Statuses :
       (IsDecorator(who) /\ Found(id) /\ Rank(st) < Rank(Doc(id).status)
          /\ UpdateStatus(who, id, st))
       => (resp' # 200 /\ bookings' = bookings)]_vars

\* C5: the amount of every stored payment is the amount the provider holds
\* for a paid checkout session.
C5_AmountFromProvider ==
  \A p \in DOMAIN payments :
    \E k \in DOMAIN sessions :
      /\ sessions[k].payment_status = "paid"
      /\ payments[p].amount = FromMinorUnits(sessions[k].amount_total)

\* C6: once no verification is between its insert and its update, every
\* payment made from a checkout session names a stored booking that is paid.
C6_NoOrphanPayment ==
  (\A r \in InFlight : r.op # "verify") =>
    \A p \in DOMAIN payments :
      payments[p].transactionId # ClientTransaction =>
        /\ Live(bookings, ObjectId(payments[p].bookingId))
        /\ bookings[ObjectId(payments[p].bookingId)].isPaid

\* C7: a service whose counter only booking creation has written counts the
\* creations completed against it.
C7_CountIsCreations ==
  \A v \in LiveIds(services) :
    ~patched[v] => services[v].bookingCount = created[v]

C7_Witness ==
  \E v \in LiveIds(services) :
    ~patched[v] /\ created[v] >= 2 /\ services[v].bookingCount = created[v]

\* C8: a cancellation by the owner that finds the booking paid is answered
\* 400, deletes nothing and does not go on to the delete.
C8_CancelPaidRejected ==
  [][\A who \in Emails, id \in Issued(bookings) :
       (Found(id) /\ Doc(id).userEmail = who /\ Doc(id).isPaid
          /\ CancelFind(who, id))
       => (resp' = 400 /\ bookings' = bookings /\ reqs' = reqs)]_vars

C8_Witness ==
  /\ resp = 400
  /\ \E b \in LiveIds(bookings) : bookings[b].isPaid

\* C9: a cancellation by a principal other than the booking's userEmail is
\* answered 403, deletes nothing and does not go on to the delete, paid or not.
C9_CancelNonOwnerForbidden ==
  [][\A who \in Emails, id \in Issued(bookings) :
       (Found(id) /\ Doc(id).userEmail # who /\ CancelFind(who, id))
       => (resp' = 403 /\ bookings' = bookings /\ reqs' = reqs)]_vars

C9_Witness ==
  /\ resp = 403
  /\ \E b \in LiveIds(bookings) : bookings[b].isPaid

\* C10: a generic update leaves the booking's isPaid, paymentId and status as
\* they were, whatever its body carries.
C10_UpdateKeepsPaidAndStatus ==
  [][\A id \in Issued(bookings), u \in BookingUpdates :
       (Found(id) /\ GenericUpdate(id, u))
       => /\ Doc(id).isPaid' = Doc(id).isPaid
          /\ Doc(id).paymentId' = Doc(id).paymentId
          /\ Doc(id).status' = Doc(id).status]_vars

\* C11: the booking a creation stores is pending and unpaid, whatever status
\* or isPaid its body carries.
C11_CreatedPendingUnpaid ==
  [][\A body \in CreateBodies :
       CreateInsert(body)
       => /\ bookings'[Len(bookings) + 1].status = "pending"
          /\ bookings'[Len(bookings) + 1].isPaid = FALSE]_vars

\* A creation is between its insert and its $inc, and the booking it stored
\* is as the handler made it.
C11_Witness ==
  /\ \E r \in InFlight : r.op = "create"
  /\ Len(bookings) >= 1
  /\ Live(bookings, Len(bookings))
  /\ bookings[Len(bookings)].status = "pending"
  /\ ~bookings[Len(bookings)].isPaid

\* C12: an administrator's assignment of a decorator to a pending booking
\* leaves it assigned, with decoratorEmail and assignedAt set and an entry for
\* "assigned" in its statusHistory.
C12_AssignRecordsHistory ==
  [][\A who \in Emails, id \in Issued(bookings) :
       (/\ Found(id)
        /\ Doc(id).status = "pending"
        /\ IsAdmin(who)
        /\ AssignDecorator(who, id, DecoratorEmail))
       => /\ bookings'[ObjectId(id)].status = "assigned"
          /\ bookings'[ObjectId(id)].decoratorEmail = DecoratorEmail
          /\ bookings'[ObjectId(id)].assignedAt = Now
          /\ "assigned" \in bookings'[ObjectId(id)].statusHistory]_vars

\* C15: a booking is deleted by a cancellation only from status pending or
\* assigned; a cancellation of a booking in progress or completed deletes
\* nothing.
C15_CancelOnlyBeforeWork ==
  [][\A r \in InFlight :
       (/\ r.op = "cancel"
        /\ Found(r.id)
        /\ CancelDelete(r))
       => Doc(r.id).status \in {"pending", "assigned"}]_vars

\* C16: a status update changes a booking only when the requester is an
\* administrator or the decorator the booking is assigned to.
C16_StatusByAssignedDecorator ==
  [][\A who \in Emails, id \in Issued(bookings), st \in Statuses :
       (/\ Found(id)
        /\ UpdateStatus(who, id, st)
        /\ bookings' # bookings)
       => (IsAdmin(who) \/ Doc(id).decoratorEmail = who)]_vars

\* C13: a verification of a session the provider does not report as paid
\* answers 400 and leaves the payments and every booking as they were.
C13_DeclinedChangesNothing ==
  [][\A sid \in Issued(sessions), b \in Issued(bookings) :
       (/\ sessions[ObjectId(sid)].payment_status # "paid"
        /\ VerifyInsert(sid, b))
       => /\ resp' = 400
          /\ payments' = payments
          /\ bookings' = bookings
          /\ reqs' = reqs]_vars

\* A verification was declined: the session is still unpaid and nothing is
\* recorded.
C13_Witness ==
  /\ resp = 400
  /\ \E k \in DOMAIN sessions : sessions[k].payment_status = "unpaid"
  /\ payments = << >>
  /\ \A b \in LiveIds(bookings) : ~bookings[b].isPaid

\* A booking is marked paid by a payment made from session k.
Settled(k) ==
  \E p \in DOMAIN payments, b \in LiveIds(bookings) :
    /\ payments[p].transactionId = sessions[k].payment_intent
    /\ bookings[b].isPaid
    /\ bookings[b].paymentId = OidString(p)

\* C14: once the provider reports a session as paid, a booking is eventually
\* marked paid with a payment recorded for that session, whether or not a
\* client calls the verification.
C14_PaidSessionSettles ==
  \A k \in 1..MaxSessions :
    (k \in DOMAIN sessions /\ sessions[k].payment_status = "paid")
      ~> (k \in DOMAIN sessions /\ Settled(k))

\* C17: a user's role changes only by the role update an administrator was
\* admitted to, and a registration stores role "user" whatever its body
\* carries.
C17_RoleOnlyByAdmin ==
  [][\A e \in Principals :
       users'[e] # users[e]
       => \/ \E r \in InFlight :
               r.op = "register" /\ RegisterInsert(r) /\ users'[e] = "user"
          \/ \E r \in InFlight :
               r.op = "role" /\ ObjectId(r.userId) = e /\ RoleWrite(r)]_vars

====
